---- MODULE Spec2Model ----
(***************************************************************************)
(* Click orchestration of the row-by-row mines game:                       *)
(*   src/src/components/cellClickHandlers.ts  (CellClickHandlers)          *)
(*   src/src/components/createGrid.ts         (createGrid, gridAPI)        *)
(*   src/src/components/constants/gridOffsets.ts                           *)
(*                                                                         *)
(* One click is handled as a sequence of synchronous segments separated by *)
(* the suspension points of the code: the awaited cell-resolution request, *)
(* the awaited round-end request and the forward-movement completion       *)
(* callback.  Each segment is one action.                                  *)
(***************************************************************************)
EXTENDS Integers, FiniteSets, Sequences, TLC

\* Smallest row count of the offset table (gridOffsets.ts:8).
TotalRows == 3
\* Number of columns of the modelled grid (createGrid cols).
Cols == 2
\* Default cell pixel size of createGrid (createGrid.ts:34).
CellSize == 80

Rows == 0 .. (TotalRows - 1)
ColIdx == 0 .. (Cols - 1)
CellValues == {"MINE", "HIDDEN", "SAFE"}

VARIABLES
    gameStarted,        \* GlobalState.getGameStarted()
    currentRow,         \* GlobalState.getCurrentRow()
    game_matrix,        \* GlobalState.game_matrix, index 0 first
    currentCols,        \* context.currentCols
    gridCells,          \* gridCells[row][col]: visual state of a cell
    greenLights,        \* greenLights[row][col]: the Indicator's visible flag
    containerEnabled,   \* the container-level input gate
    uiAnimating,        \* host flag: markAnimationsStarting .. markAnimationsComplete
    startSignals,       \* markAnimationsStarting calls of the current click
    completeSignals,    \* markAnimationsComplete calls of the current click
    statusText,         \* last text shown through the text API
    buttonHideRequests, \* startButton.temporarilyHideButtons calls of the current click
    cellRequests,       \* cellClickEvents requests of the current click
    roundEndRequests,   \* roundEndEvents requests of the current click
    outcome,            \* result of the cell-resolution request of the current click
    roundEndOutcome,    \* result of the round-end request of the current click
    pc,                 \* where the click sequence is suspended
    clickRow, clickCol, \* the (row, col) arguments of the accepted click
    handlerResult,      \* settlement of the promise handleCellClick returned
    lastClick,          \* row and validation of the most recent handleCellClick call
    calls,              \* calls the current click sequence made, in program order
    build,              \* createGrid: its options, its outcome, the container's children
    gridCall            \* the latest call on the gridAPI made from outside the click sequence

vars == <<gameStarted, currentRow, game_matrix, currentCols, gridCells,
          greenLights, containerEnabled, uiAnimating, startSignals,
          completeSignals, statusText, buttonHideRequests, cellRequests,
          roundEndRequests, outcome, roundEndOutcome, pc, clickRow, clickCol,
          handlerResult, lastClick, calls, build, gridCall>>

session == <<gameStarted, currentRow>>
visuals == <<gridCells, greenLights>>
signals == <<uiAnimating, startSignals, completeSignals>>
requests == <<cellRequests, roundEndRequests, outcome, roundEndOutcome>>
hostUi == <<statusText, buttonHideRequests>>
handler == <<pc, clickRow, clickCol, handlerResult>>
\* State no step of a click sequence and no host step writes.
external == <<game_matrix, currentCols, build, gridCall>>

NoClick == [row |-> -1, accepted |-> FALSE]

----------------------------------------------------------------------------
(* The grid: createGrid and its control surface                            *)

\* A cell as createGridCell leaves it.
InitialCell ==
    [pressedOffset |-> 0, mine |-> FALSE, bomb |-> FALSE, blast |-> FALSE,
     flag |-> FALSE, tint |-> FALSE, animatedBg |-> FALSE, animation |-> "none"]

\* createGrid: one cell and one hidden green light per (row, col).
NewGridCells == [r \in Rows |-> [c \in ColIdx |-> InitialCell]]
NewGreenLights == [r \in Rows |-> [c \in ColIdx |-> FALSE]]

\* The bounds test of getCell / getGreenLight.
InBounds(row, col) == row >= 0 /\ row < TotalRows /\ col >= 0 /\ col < Cols

\* An emit that lands on the nearest cell when the address is out of bounds.
EmitAt_Clamped(g, row, col, field, value) ==
    LET r == IF row < 0 THEN 0 ELSE IF row >= TotalRows THEN TotalRows - 1 ELSE row
        c == IF col < 0 THEN 0 ELSE IF col >= Cols THEN Cols - 1 ELSE col
    IN  [g EXCEPT ![r][c] = [@ EXCEPT ![field] = value]]

\* cell.emit(...) on the cell getCell(row, col) returns, nothing when null.
EmitAt(g, row, col, field, value) ==
    IF InBounds(row, col)
    THEN [g EXCEPT ![row][col] = [@ EXCEPT ![field] = value]]
    ELSE g

setCellPressed(g, row, col, pressed) ==
    LET offset == IF pressed THEN CellSize * 0 ELSE 0
    IN  EmitAt(g, row, col, "pressedOffset", offset)

addMineOverlay(g, row, col) == EmitAt(g, row, col, "mine", TRUE)
addBombOverlay(g, row, col) == EmitAt(g, row, col, "bomb", TRUE)
playBlastAnimation(g, row, col) == EmitAt(g, row, col, "blast", TRUE)
addGreenFlag(g, row, col) == EmitAt(g, row, col, "flag", TRUE)

showGreenLight(gl, row, col) ==
    IF InBounds(row, col) THEN [gl EXCEPT ![row][col] = TRUE] ELSE gl
hideGreenLight(gl, row, col) ==
    IF InBounds(row, col) THEN [gl EXCEPT ![row][col] = FALSE] ELSE gl

\* A reset that flips the background look instead of restoring it.
resetCell_FlipsBackground(g, row, col) ==
    IF InBounds(row, col)
    THEN [g EXCEPT ![row][col] =
             [InitialCell EXCEPT !.animatedBg = ~g[row][col].animatedBg]]
    ELSE g

resetCell(g, row, col) ==
    IF InBounds(row, col) THEN [g EXCEPT ![row][col] = InitialCell] ELSE g

triggerCellAnimation(g, row, col, animationName) ==
    EmitAt(g, row, col, "animation", animationName)

\* The row-wide operations run a single-cell operation for col = 0 .. cols-1.
\* Each single-cell operation touches only the cell it addresses, so cell
\* (r, c) of the result is cell (r, c) of the step taken at column c.
setRowPressed(g, row, pressed) ==
    [r \in Rows |-> [c \in ColIdx |-> setCellPressed(g, row, c, pressed)[r][c]]]

setRowGreenOverlay(gl, row, useGreen) ==
    [r \in Rows |-> [c \in ColIdx |->
        IF useGreen THEN showGreenLight(gl, row, c)[r][c]
                    ELSE hideGreenLight(gl, row, c)[r][c]]]

setRowAnimatedBackground(g, row, useAnimated) ==
    [r \in Rows |-> [c \in ColIdx |->
        EmitAt(g, row, c, "animatedBg", useAnimated)[r][c]]]

setRowTint(g, row, useDarkerTint) ==
    [r \in Rows |-> [c \in ColIdx |->
        EmitAt(g, row, c, "tint", useDarkerTint)[r][c]]]

\* A tint loop that also tints the reference row.
RECURSIVE TintLoop_FromReferenceRow(_, _, _)
TintLoop_FromReferenceRow(g, row, ref) ==
    IF row >= TotalRows THEN g
    ELSE LET shouldHaveDarkerTint == row >= ref
         IN  TintLoop_FromReferenceRow(setRowTint(g, row, shouldHaveDarkerTint),
                                       row + 1, ref)

RECURSIVE TintLoop(_, _, _)
TintLoop(g, row, ref) ==
    IF row >= TotalRows THEN g
    ELSE LET shouldHaveDarkerTint == row > ref
         IN  TintLoop(setRowTint(g, row, shouldHaveDarkerTint), row + 1, ref)

updateRowTinting(g, ref) == TintLoop(g, 0, ref)

resetRow(g, row) ==
    [r \in Rows |-> [c \in ColIdx |-> resetCell(g, row, c)[r][c]]]

RECURSIVE ResetLoop(_, _)
ResetLoop(g, row) ==
    IF row >= TotalRows THEN g ELSE ResetLoop(resetRow(g, row), row + 1)

resetGrid(g) == ResetLoop(g, 0)

----------------------------------------------------------------------------
(* createGrid: the build                                                   *)
(* Lengths and positions are integers in thousandths of a pixel, the       *)
(* offset table is in hundredths, so the fractions of the code (0.18,      *)
(* -0.63, 0.370, ...) stay exact.                                          *)

\* Largest row and column counts handed to createGrid.
MaxBuildRows == 15
MaxBuildCols == 2

\* The value of a lookup that finds no entry.
Undefined == [undefined |-> TRUE]

\* The table gridOffsets, keyed by row count, in hundredths.
gridOffsets(key) ==
    CASE key = 3  -> [offsetX |-> 20,  offsetY |-> 1]
      [] key = 6  -> [offsetX |-> 40,  offsetY |-> 7]
      [] key = 9  -> [offsetX |-> 60,  offsetY |-> 15]
      [] key = 12 -> [offsetX |-> 85,  offsetY |-> 27]
      [] key = 15 -> [offsetX |-> 110, offsetY |-> 35]
      [] OTHER    -> Undefined

\* A lookup keyed by the grid size rows * cols.
getGridOffset_BySize(rows, cols) ==
    LET gridSize == rows * cols
    IN  gridOffsets(gridSize)

\* getGridOffset computes gridSize and does not use it.
getGridOffset(rows, cols) ==
    LET gridSize == rows * cols
    IN  gridOffsets(rows)

\* The stagger fractions of createGrid, in thousandths of cellSize.
createGridStagger ==
    [yStep |-> 180, xGap |-> -630, xRowShift |-> 370, yRowShift |-> 180]

\* Position of cell (row, col) for an anchor (baseX, baseY) and a stagger.
CellX(cellSize, st, baseX, row, col) ==
    LET rowOffsetX == baseX - (row * (cellSize * st.xRowShift))
    IN  (col * ((cellSize * 1000) + (cellSize * st.xGap))) + rowOffsetX

CellY(cellSize, st, baseY, row, col) ==
    LET rowOffsetY == baseY + (row * (cellSize * st.yRowShift))
    IN  rowOffsetY + (col * (cellSize * st.yStep))

\* A child of the container.
Child(kind, row, col, x, y, width, height, visible, zIndex, onClick) ==
    [kind |-> kind, row |-> row, col |-> col, x |-> x, y |-> y,
     width |-> width, height |-> height, visible |-> visible,
     zIndex |-> zIndex, onClick |-> onClick]

\* The cell container createGrid adds for (row, col).
CellChild(o, baseX, baseY, row, col) ==
    Child("cell", row, col,
          CellX(o.cellSize, createGridStagger, baseX, row, col),
          CellY(o.cellSize, createGridStagger, baseY, row, col),
          o.cellSize * 1000, o.cellSize * 1000, TRUE, row, FALSE)

\* The green light createGrid adds for (row, col): hidden, above the cells,
\* with a click handler only when onCellClick was supplied.
GreenLightChild(o, baseX, baseY, row, col) ==
    Child("greenLight", row, col,
          CellX(o.cellSize, createGridStagger, baseX, row, col) + (o.cellSize * 250),
          CellY(o.cellSize, createGridStagger, baseY, row, col) + (o.cellSize * 150),
          o.cellSize * 500, o.cellSize * 200, FALSE, row + 100, o.onCellClick)

\* createTextCard: the card and its text, at a position derived from the
\* last column of the row.
TextCardChildren(o, baseX, baseY, row) ==
    LET st == createGridStagger
        rowCenterX == CellX(o.cellSize, st, baseX, row, o.cols - 1) + (o.cellSize * 800)
        rowBottomY == CellY(o.cellSize, st, baseY, row, o.cols - 1) + (o.cellSize * 700)
        cardY == rowBottomY + (o.cellSize * 150)
    IN  << Child("textCard", row, -1, rowCenterX, cardY,
                 o.cellSize * 400, o.cellSize * 300, TRUE, 40, FALSE),
           Child("multiplierText", row, -1, rowCenterX, cardY, 0, 0, TRUE, 50, FALSE) >>

\* A column loop that adds the cell container twice.
RECURSIVE ColLoop_AddsCellTwice(_, _, _, _, _)
ColLoop_AddsCellTwice(o, baseX, baseY, row, col) ==
    IF col < o.cols
    THEN << CellChild(o, baseX, baseY, row, col),
            CellChild(o, baseX, baseY, row, col),
            GreenLightChild(o, baseX, baseY, row, col) >>
           \o ColLoop_AddsCellTwice(o, baseX, baseY, row, col + 1)
    ELSE <<>>

\* The inner loop of createGrid from column col on: a cell, then its green
\* light, for every column.
RECURSIVE ColLoop(_, _, _, _, _)
ColLoop(o, baseX, baseY, row, col) ==
    IF col < o.cols
    THEN << CellChild(o, baseX, baseY, row, col),
            GreenLightChild(o, baseX, baseY, row, col) >>
           \o ColLoop(o, baseX, baseY, row, col + 1)
    ELSE <<>>

\* The outer loop of createGrid from row `row` on; a row's text card follows
\* its cells when a multiplier and the card texture are there.
RECURSIVE RowLoop(_, _, _, _)
RowLoop(o, baseX, baseY, row) ==
    IF row < o.rows
    THEN ColLoop(o, baseX, baseY, row, 0)
           \o (IF o.multipliers > row /\ o.textCardTex
               THEN TextCardChildren(o, baseX, baseY, row) ELSE <<>>)
           \o RowLoop(o, baseX, baseY, row + 1)
    ELSE <<>>

\* The entry of a reference array (gridCells or greenLights of createGrid)
\* for (row, col): the index of the child assigned to it last, 0 for null.
RefTo(children, kind, row, col) ==
    LET hits == {i \in DOMAIN children :
                   /\ children[i].kind = kind
                   /\ children[i].row = row
                   /\ children[i].col = col}
    IN  IF hits = {} THEN 0 ELSE CHOOSE i \in hits : \A j \in hits : j <= i

RefArray(o, children, kind) ==
    [r \in 0 .. (o.rows - 1) |-> [c \in 0 .. (o.cols - 1) |->
        RefTo(children, kind, r, c)]]

\* createGrid not yet called on the options o.
Unbuilt(o) ==
    [status |-> "options", options |-> o, offset |-> [pending |-> TRUE],
     children |-> <<>>, onCellClickCalls |-> <<>>,
     lastResize |-> [called |-> FALSE],
     gridCells |-> <<>>, greenLights |-> <<>>]

\* createGrid(o).  Reading offsetX of an undefined lookup result throws a
\* TypeError before anything is built.
createGrid(o) ==
    LET offset == getGridOffset(o.rows, o.cols)
    IN  IF offset = Undefined
        THEN [Unbuilt(o) EXCEPT !.status = "threw", !.offset = offset]
        ELSE LET baseX == (o.offsetX * 1000) + (o.width * 10 * offset.offsetX)
                 baseY == (o.offsetY * 1000) - (o.height * 10 * offset.offsetY)
                 children == RowLoop(o, baseX, baseY, 0)
             IN  [status |-> "built", options |-> o, offset |-> offset,
                  children |-> children, onCellClickCalls |-> <<>>,
                  lastResize |-> [called |-> FALSE],
                  gridCells |-> RefArray(o, children, "cell"),
                  greenLights |-> RefArray(o, children, "greenLight")]

\* The stagger fractions of gridAPI.resize, in thousandths of newCellSize.
resizeStagger ==
    [yStep |-> 220, xGap |-> -410, xRowShift |-> 405, yRowShift |-> 202]

\* The resize method of a cell, called with the new cell size twice: the
\* cell takes the new size as its width and height.
cellResize(ch, width, height) ==
    [ch EXCEPT !.width = width * 1000, !.height = height * 1000]

\* A child after resize has recomputed the positions.  A cell is resized
\* and moved; its green light is moved to the cell's x and y, and keeps its
\* size, as the container createGreenLight returns has no resize method.
\* Text cards are left where they were.
ResizedChild(b, i, baseX, baseY, newCellSize) ==
    LET ch == b.children[i]
        x == CellX(newCellSize, resizeStagger, baseX, ch.row, ch.col)
        y == CellY(newCellSize, resizeStagger, baseY, ch.row, ch.col)
    IN  IF ch.kind = "cell" /\ b.gridCells[ch.row][ch.col] = i
        THEN [cellResize(ch, newCellSize, newCellSize) EXCEPT !.x = x, !.y = y]
        ELSE IF ch.kind = "greenLight" /\ b.greenLights[ch.row][ch.col] = i
        THEN [ch EXCEPT !.x = x, !.y = y]
        ELSE ch

\* gridAPI.resize(newWidth, newHeight, newCellSize); newCellSize = 0 stands
\* for a call without a new cell size.
resize(b, newWidth, newHeight, newCellSize) ==
    LET called == [called |-> TRUE, newWidth |-> newWidth,
                   newHeight |-> newHeight, newCellSize |-> newCellSize]
        offset == getGridOffset(b.options.rows, b.options.cols)
        baseX == newWidth * 10 * offset.offsetX
        baseY == 0 - (newHeight * 10 * offset.offsetY)
    IN  IF newCellSize # 0
        THEN [b EXCEPT !.lastResize = called,
                       !.children = [i \in DOMAIN b.children |->
                           ResizedChild(b, i, baseX, baseY, newCellSize)]]
        ELSE [b EXCEPT !.lastResize = called]

\* The options the grid of the click sequences was built with.
ModelledGridOptions ==
    [width |-> 800, height |-> 600, rows |-> TotalRows, cols |-> Cols,
     cellSize |-> CellSize, offsetX |-> 0, offsetY |-> 0, multipliers |-> 0,
     textCardTex |-> TRUE, onCellClick |-> TRUE]

\* The options createGrid is tried on.
BuildOptions ==
    [width : {800}, height : {600}, rows : 1 .. MaxBuildRows,
     cols : 1 .. MaxBuildCols, cellSize : {CellSize, CellSize + 20},
     offsetX : {0}, offsetY : {0}, multipliers : {0, MaxBuildRows},
     textCardTex : BOOLEAN, onCellClick : BOOLEAN]

\* What a gridAPI call returns: null, nothing, or a child of the container.
Null == [null |-> TRUE]
Void == [void |-> TRUE]

getCell(b, row, col) ==
    IF InBounds(row, col) THEN [child |-> b.gridCells[row][col]] ELSE Null

getGreenLight(b, row, col) ==
    IF InBounds(row, col) THEN [child |-> b.greenLights[row][col]] ELSE Null

\* A tap handler that is bound whether or not a callback was supplied.
pointertap_Unconditional(child) == <<(<<child.row, child.col>>)>>

\* GreenLight.setupEventListeners: the (row, col) pairs the click callback is
\* invoked with when a pointertap reaches the green light `child`; the
\* handler is bound only when onClick was supplied.
pointertap(child) ==
    IF child.onClick THEN <<(<<child.row, child.col>>)>> ELSE <<>>

\* No call made on the gridAPI yet.  `changed` tells, for each time the call
\* was made, whether it changed a cell or a green light.
NoGridCall ==
    [op |-> "none", row |-> -1, col |-> -1, arg |-> "", result |-> Void,
     changed |-> <<>>]

----------------------------------------------------------------------------
(* External state the orchestrator reads                                   *)

\* The classification of cell (i, c) in the matrix generated by the pattern
\* (a, b, d): the three values cycle along rows and columns.
CellValueAt(k) ==
    CASE k = 0 -> "MINE" [] k = 1 -> "HIDDEN" [] k = 2 -> "SAFE"

PatternMatrix(a, b, d) ==
    [i \in Rows |-> [c \in ColIdx |-> CellValueAt((a * i + b * c + d) % 3)]]

\* The 3 x 2 matrix [[MINE,HIDDEN],[SAFE,SAFE],[SAFE,MINE]], index 0 first.
ExampleMatrix ==
    [i \in 0 .. 2 |->
        CASE i = 0 -> [c \in 0 .. 1 |-> IF c = 0 THEN "MINE" ELSE "HIDDEN"]
          [] i = 1 -> [c \in 0 .. 1 |-> "SAFE"]
          [] i = 2 -> [c \in 0 .. 1 |-> IF c = 0 THEN "SAFE" ELSE "MINE"]]

\* The matrices GlobalState.game_matrix may hold: none yet (empty), the
\* example matrix, or a pattern matrix with one classification per cell.
\* Every cell takes every value, and every pair of cells in a row or a
\* column takes every pair of values its pattern allows.
Matrices ==
    {[i \in {} |-> 0], ExampleMatrix}
      \cup {PatternMatrix(a, b, d) : a \in 0 .. 2, b \in 0 .. 2, d \in 0 .. 2}

MatrixLen(m) == Cardinality(DOMAIN m)
Min(a, b) == IF a < b THEN a ELSE b

\* Columns the reveal loops visit in a matrix row:
\* colIndex < matrixRow.length && colIndex < currentCols.
ScannedCols(matrixRow) ==
    0 .. (Min(MatrixLen(matrixRow), currentCols) - 1)

----------------------------------------------------------------------------
(* CellClickHandlers                                                       *)

\* Validation that forgets the started test.
validateGameState_NoStartedTest(row) == row = currentRow

\* Validation that forgets the row test.
validateGameState_NoRowTest(row) == gameStarted

validateGameState(row) ==
    IF ~gameStarted THEN FALSE
    ELSE IF row # currentRow THEN FALSE
    ELSE TRUE

\* Where a failure thrown at an await of the click sequence ends up:
\*   the cell-resolution await sits in the try of handleCellClick;
\*   the round-end await of handleMineHit sits in its own try, whose catch
\*   only logs; the round-end await of completeGame has no try of its own
\*   and is awaited up the chain completeGame <- progressToNextRowOrComplete
\*   <- handleSafeCell <- handleCellClick, inside the try of handleCellClick.
\* The round-end await of completeGame left outside every try.
FailureDisposition_WinUnguarded(site) ==
    CASE site = "cellClick"    -> "errorRecovery"
      [] site = "mineRoundEnd" -> "swallowed"
      [] site = "winRoundEnd"  -> "unhandled"

FailureDisposition(site) ==
    CASE site = "cellClick"    -> "errorRecovery"
      [] site = "mineRoundEnd" -> "swallowed"
      [] site = "winRoundEnd"  -> "errorRecovery"

\* One entry of the call log of a click sequence.
Call(op, row, col, arg) == [op |-> op, row |-> row, col |-> col, arg |-> arg]

\* The calls of prepareForCellClick, in program order.
prepareForCellClickCalls(row) ==
    << Call("disableContainer", -1, -1, ""),
       Call("markAnimationsStarting", -1, -1, ""),
       Call("setRowPressed", row, -1, "true"),
       Call("setRowAnimatedBackground", row, -1, "false") >>

\* A click that issues the cell-resolution request before it locks and primes.
handleCellClickCalls_RequestFirst(row, col) ==
    <<Call("cellClickEvents", row, col, "")>> \o prepareForCellClickCalls(row)

\* A click that issues the cell-resolution request twice.
handleCellClickCalls_TwoRequests(row, col) ==
    prepareForCellClickCalls(row)
      \o <<Call("cellClickEvents", row, col, ""), Call("cellClickEvents", row, col, "")>>

\* The calls of handleCellClick up to its first suspension.
handleCellClickCalls(row, col) ==
    prepareForCellClickCalls(row) \o <<Call("cellClickEvents", row, col, "")>>

\* The calls of handleMineHit up to its suspension.
handleMineHitCalls(row, col) ==
    << Call("handleMineHit", row, col, ""),
       Call("roundEndEvents", -1, -1, "mine_hit") >>

\* A completeGame that names the win in its round-end request.
completeGameCalls_WinReason ==
    <<Call("roundEndEvents", -1, -1, "game_won")>>

\* The calls of completeGame up to its suspension.
completeGameCalls ==
    <<Call("roundEndEvents", -1, -1, "mine_hit")>>

\* The calls of handleSafeCell up to the suspension of the click sequence.
handleSafeCellCalls(row, col) ==
    <<Call("handleSafeCell", row, col, "")>>
      \o (IF row - 1 >= 0 THEN <<>> ELSE completeGameCalls)

\* The calls of handleCellClickError.
handleCellClickErrorCalls(row) ==
    << Call("handleCellClickError", row, -1, ""),
       Call("setRowPressed", row, -1, "false"),
       Call("markAnimationsComplete", -1, -1, "") >>

\* The calls of resetGameStateAfterMineHit; the tint recompute is handed the
\* current row as read before the reset.
resetGameStateAfterMineHitCalls ==
    << Call("updateRowTinting", currentRow, -1, ""),
       Call("setGameStarted", -1, -1, "false"),
       Call("setCurrentRow", TotalRows - 1, -1, "") >>

\* The calls of handleMineHit from the settlement of its round-end request:
\* the reveal only when the request succeeded.
handleMineHitResumeCalls(ok, row) ==
    (IF ok THEN <<Call("revealAllRemainingMines", row, -1, "")>> ELSE <<>>)
      \o resetGameStateAfterMineHitCalls
      \o << Call("markAnimationsComplete", -1, -1, ""),
            Call("temporarilyHideButtons", -1, -1, "") >>

\* The calls of completeGame after its round-end request succeeded.
completeGameResumeCalls ==
    << Call("showYouWinCollect", -1, -1, ""),
       Call("markAnimationsComplete", -1, -1, ""),
       Call("temporarilyHideButtons", -1, -1, "") >>

\* The calls of the forward-movement completion callback for the new row.
forwardMovementCallbackCalls(newCurrentRow) ==
    << Call("setRowGreenOverlay", newCurrentRow, -1, "true"),
       Call("setRowAnimatedBackground", newCurrentRow, -1, "true"),
       Call("updateRowTinting", newCurrentRow, -1, ""),
       Call("markAnimationsComplete", -1, -1, "") >>

markAnimationsStarting ==
    /\ uiAnimating' = TRUE
    /\ startSignals' = 1
    /\ completeSignals' = 0

markAnimationsComplete ==
    /\ uiAnimating' = FALSE
    /\ completeSignals' = completeSignals + 1
    /\ UNCHANGED startSignals

\* The grid after prepareForCellClick(row).
PreparedGrid(g, row) ==
    setRowAnimatedBackground(setRowPressed(g, row, TRUE), row, FALSE)

prepareForCellClick(row) ==
    /\ containerEnabled' = FALSE
    /\ markAnimationsStarting
    /\ gridCells' = PreparedGrid(gridCells, row)

\* handleCellClick up to its first suspension: validation, lock and prime,
\* and the cell-resolution request.
handleCellClick(row, col) ==
    /\ containerEnabled
    /\ lastClick' = [row |-> row, accepted |-> validateGameState(row)]
    /\ IF validateGameState(row)
       THEN /\ prepareForCellClick(row)
            /\ cellRequests' = 1
            /\ roundEndRequests' = 0
            /\ outcome' = "pending"
            /\ roundEndOutcome' = "none"
            /\ buttonHideRequests' = 0
            /\ pc' = "resolving"
            /\ clickRow' = row
            /\ clickCol' = col
            /\ handlerResult' = "pending"
            /\ calls' = handleCellClickCalls(row, col)
            /\ UNCHANGED <<session, external, greenLights, statusText>>
       ELSE UNCHANGED <<session, external, visuals, containerEnabled, signals,
                        hostUi, requests, handler, calls>>

\* Cells revealAllRemainingMines overlays: matrix rows startMatrixRowIndex ..
\* gameMatrix.length-1, each at visual row totalRows - (matrixRowIndex + 1).
RemainingMines(m, row) ==
    LET startMatrixRowIndex == TotalRows - (row + 1)
    IN  IF MatrixLen(m) > 0
        THEN {<<TotalRows - (matrixRowIndex + 1), colIndex>> :
                <<matrixRowIndex, colIndex>> \in
                  {<<i, c>> \in (startMatrixRowIndex .. (MatrixLen(m) - 1)) \X ColIdx :
                      /\ i \in DOMAIN m
                      /\ c \in ScannedCols(m[i])
                      /\ m[i][c] = "MINE"}}
        ELSE {}

\* grid.addBombOverlay at every position of a set.
BombsAt(g, targets) ==
    [r \in Rows |-> [c \in ColIdx |->
        IF <<r, c>> \in targets THEN addBombOverlay(g, r, c)[r][c] ELSE g[r][c]]]

revealAllRemainingMines(g, row) == BombsAt(g, RemainingMines(game_matrix, row))

\* A lookup that takes the visual row for the matrix row index.
CurrentMatrixRow_SameIndex(m, row) ==
    IF MatrixLen(m) > 0 /\ row \in DOMAIN m
    THEN m[row]
    ELSE [i \in {} |-> 0]

\* The matrix row revealMinesInCurrentRow reads, or the empty row when the
\* matrix is missing or has no such row.
CurrentMatrixRow(m, row) ==
    LET matrixRowIndex == TotalRows - (row + 1)
    IN  IF MatrixLen(m) > 0 /\ matrixRowIndex \in DOMAIN m
        THEN m[matrixRowIndex]
        ELSE [i \in {} |-> 0]

RowValues(m, row, value) ==
    LET matrixRow == CurrentMatrixRow(m, row)
    IN  {<<row, c>> : c \in {x \in ScannedCols(matrixRow) : matrixRow[x] = value}}

\* revealMinesInCurrentRow, on the cells and on the green lights.
revealMinesInCurrentRow(g, row) == BombsAt(g, RowValues(game_matrix, row, "MINE"))

hideHiddenInCurrentRow(gl, row) ==
    [r \in Rows |-> [c \in ColIdx |->
        IF <<r, c>> \in RowValues(game_matrix, row, "HIDDEN")
        THEN hideGreenLight(gl, r, c)[r][c] ELSE gl[r][c]]]

\* A reset that moves the session first and recomputes the tints from the
\* row it then reads.
resetGameStateAfterMineHit_TintsAfterReset(g) ==
    /\ gridCells' = updateRowTinting(g, TotalRows - 1)
    /\ gameStarted' = FALSE
    /\ currentRow' = TotalRows - 1

\* A reset that forgets to move the session back to the bottom row.
resetGameStateAfterMineHit_KeepsRow(g) ==
    /\ gridCells' = updateRowTinting(g, currentRow)
    /\ gameStarted' = FALSE
    /\ currentRow' = currentRow

resetGameStateAfterMineHit(g) ==
    /\ gridCells' = updateRowTinting(g, currentRow)
    /\ gameStarted' = FALSE
    /\ currentRow' = TotalRows - 1

\* An error recovery that forgets the animations-complete signal.
handleCellClickError_NoSignal(row) ==
    /\ gridCells' = setRowPressed(gridCells, row, FALSE)
    /\ calls' = calls \o handleCellClickErrorCalls(row)
    /\ UNCHANGED signals

handleCellClickError(row) ==
    /\ gridCells' = setRowPressed(gridCells, row, FALSE)
    /\ calls' = calls \o handleCellClickErrorCalls(row)
    /\ markAnimationsComplete

\* handleMineHit up to its suspension at the round-end request.
handleMineHit(row, col) ==
    /\ statusText' = "pressStart"
    /\ gridCells' = addMineOverlay(playBlastAnimation(gridCells, row, col), row, col)
    /\ roundEndRequests' = roundEndRequests + 1
    /\ calls' = calls \o handleMineHitCalls(row, col)
    /\ pc' = "mineRoundEnd"
    /\ UNCHANGED <<session, greenLights, signals, buttonHideRequests,
                   roundEndOutcome, handlerResult>>

\* A progression that signals animations complete without waiting for the
\* forward-movement callback.
progressToNextRow_CompletesEarly(g, gl, row, newCurrentRow) ==
    /\ currentRow' = newCurrentRow
    /\ gridCells' = g
    /\ greenLights' = gl
    /\ markAnimationsComplete
    /\ pc' = "animating"
    /\ handlerResult' = "fulfilled"
    /\ UNCHANGED <<gameStarted, roundEndRequests, roundEndOutcome,
                   buttonHideRequests>>

\* A progression that shows the new row's green lights before the animation.
progressToNextRow_ShowsEarly(g, gl, row, newCurrentRow) ==
    /\ currentRow' = newCurrentRow
    /\ gridCells' = g
    /\ greenLights' = setRowGreenOverlay(gl, newCurrentRow, TRUE)
    /\ pc' = "animating"
    /\ handlerResult' = "fulfilled"
    /\ UNCHANGED <<gameStarted, signals, roundEndRequests, roundEndOutcome,
                   buttonHideRequests>>

\* progressToNextRow: the session moves first, the rest waits for the
\* forward-movement callback; the promise of handleCellClick is fulfilled.
progressToNextRow(g, gl, row, newCurrentRow) ==
    /\ currentRow' = newCurrentRow
    /\ gridCells' = g
    /\ greenLights' = gl
    /\ pc' = "animating"
    /\ handlerResult' = "fulfilled"
    /\ UNCHANGED <<gameStarted, signals, roundEndRequests, roundEndOutcome,
                   buttonHideRequests>>

\* completeGame up to its suspension at the round-end request.
completeGame(g, gl) ==
    /\ gridCells' = updateRowTinting(g, -1)
    /\ greenLights' = gl
    /\ gameStarted' = FALSE
    /\ currentRow' = TotalRows - 1
    /\ roundEndRequests' = roundEndRequests + 1
    /\ pc' = "winRoundEnd"
    /\ UNCHANGED <<signals, roundEndOutcome, buttonHideRequests, handlerResult>>

\* A progression that completes the game one row early.
progressToNextRowOrComplete_CompletesAtRowOne(g, gl, row) ==
    LET newCurrentRow == row - 1
    IN  IF newCurrentRow > 0
        THEN progressToNextRow(g, gl, row, newCurrentRow)
        ELSE completeGame(g, gl)

progressToNextRowOrComplete(g, gl, row) ==
    LET newCurrentRow == row - 1
    IN  IF newCurrentRow >= 0
        THEN progressToNextRow(g, gl, row, newCurrentRow)
        ELSE completeGame(g, gl)

handleSafeCell(row, col) ==
    /\ statusText' = "youCanWin"
    /\ calls' = calls \o handleSafeCellCalls(row, col)
    /\ progressToNextRowOrComplete(
          revealMinesInCurrentRow(addGreenFlag(gridCells, row, col), row),
          hideHiddenInCurrentRow(greenLights, row),
          row)

\* A failure thrown at the await `site` of the click on `row`.
Thrown(site, row) ==
    IF FailureDisposition(site) = "errorRecovery"
    THEN /\ handleCellClickError(row)
         /\ handlerResult' = "fulfilled"
    ELSE /\ handlerResult' = "rejected"
         /\ UNCHANGED <<gridCells, signals, calls>>

\* The cell-resolution request answers { hitMine: true }.
CellClickMine ==
    /\ pc = "resolving"
    /\ outcome' = "mine"
    /\ handleMineHit(clickRow, clickCol)
    /\ UNCHANGED <<external, containerEnabled, cellRequests, clickRow, clickCol,
                   lastClick>>

\* The cell-resolution request answers { hitMine: false }.
CellClickSafe ==
    /\ pc = "resolving"
    /\ outcome' = "safe"
    /\ handleSafeCell(clickRow, clickCol)
    /\ UNCHANGED <<external, containerEnabled, cellRequests, clickRow, clickCol,
                   lastClick>>

\* The cell-resolution request fails.
CellClickFailed ==
    /\ pc = "resolving"
    /\ outcome' = "failed"
    /\ Thrown("cellClick", clickRow)
    /\ pc' = "idle"
    /\ UNCHANGED <<session, external, greenLights, containerEnabled, hostUi,
                   cellRequests, roundEndRequests, roundEndOutcome, clickRow,
                   clickCol, lastClick>>

\* handleMineHit from the settlement of its round-end request to its end.
handleMineHitResume(ok) ==
    /\ pc = "mineRoundEnd"
    /\ roundEndOutcome' = IF ok THEN "ok" ELSE "failed"
    /\ IF ok \/ FailureDisposition("mineRoundEnd") = "swallowed"
       THEN /\ resetGameStateAfterMineHit(
                  IF ok THEN revealAllRemainingMines(gridCells, clickRow)
                        ELSE gridCells)
            /\ markAnimationsComplete
            /\ buttonHideRequests' = buttonHideRequests + 1
            /\ handlerResult' = "fulfilled"
            /\ calls' = calls \o handleMineHitResumeCalls(ok, clickRow)
       ELSE /\ Thrown("mineRoundEnd", clickRow)
            /\ UNCHANGED <<session, buttonHideRequests>>
    /\ pc' = "idle"
    /\ UNCHANGED <<external, greenLights, containerEnabled, statusText,
                   cellRequests, roundEndRequests, outcome, clickRow, clickCol,
                   lastClick>>

MineRoundEndOk == handleMineHitResume(TRUE)
MineRoundEndFailed == handleMineHitResume(FALSE)

\* completeGame from the settlement of its round-end request to its end.
completeGameResume(ok) ==
    /\ pc = "winRoundEnd"
    /\ roundEndOutcome' = IF ok THEN "ok" ELSE "failed"
    /\ IF ok
       THEN /\ statusText' = "youWinCollect"
            /\ markAnimationsComplete
            /\ buttonHideRequests' = buttonHideRequests + 1
            /\ handlerResult' = "fulfilled"
            /\ calls' = calls \o completeGameResumeCalls
            /\ UNCHANGED gridCells
       ELSE /\ Thrown("winRoundEnd", clickRow)
            /\ UNCHANGED hostUi
    /\ pc' = "idle"
    /\ UNCHANGED <<session, external, greenLights, containerEnabled,
                   cellRequests, roundEndRequests, outcome, clickRow, clickCol,
                   lastClick>>

WinRoundEndOk == completeGameResume(TRUE)
WinRoundEndFailed == completeGameResume(FALSE)

\* The completion callback progressToNextRow handed to
\* triggerForwardMovementAnimation; newCurrentRow is the value it closed over.
forwardMovementCallback ==
    /\ pc = "animating"
    /\ LET newCurrentRow == clickRow - 1
       IN  /\ greenLights' = setRowGreenOverlay(greenLights, newCurrentRow, TRUE)
           /\ gridCells' = updateRowTinting(
                  setRowAnimatedBackground(gridCells, newCurrentRow, TRUE),
                  newCurrentRow)
    /\ markAnimationsComplete
    /\ calls' = calls \o forwardMovementCallbackCalls(clickRow - 1)
    /\ pc' = "idle"
    /\ UNCHANGED <<session, external, containerEnabled, hostUi, requests,
                   clickRow, clickCol, handlerResult, lastClick>>

----------------------------------------------------------------------------
(* The surrounding UI                                                      *)

\* The host re-enables the container in response to markAnimationsComplete.
HostEnableContainer ==
    /\ ~uiAnimating
    /\ ~containerEnabled
    /\ containerEnabled' = TRUE
    /\ UNCHANGED <<session, external, visuals, signals, hostUi, requests,
                   handler, lastClick, calls>>

\* The host starts a round: a fresh grid, the bottom row made the current
\* row with its green lights shown, and the session marked started.
StartGame ==
    /\ ~gameStarted
    /\ ~uiAnimating
    /\ pc = "idle"
    /\ gameStarted' = TRUE
    /\ currentRow' = TotalRows - 1
    /\ gridCells' = updateRowTinting(
           setRowAnimatedBackground(resetGrid(gridCells), TotalRows - 1, TRUE),
           TotalRows - 1)
    /\ greenLights' = setRowGreenOverlay(NewGreenLights, TotalRows - 1, TRUE)
    /\ startSignals' = 0
    /\ completeSignals' = 0
    /\ statusText' = "none"
    /\ buttonHideRequests' = 0
    /\ cellRequests' = 0
    /\ roundEndRequests' = 0
    /\ outcome' = "none"
    /\ roundEndOutcome' = "none"
    /\ clickRow' = -1
    /\ clickCol' = -1
    /\ handlerResult' = "none"
    /\ lastClick' = NoClick
    /\ calls' = <<>>
    /\ UNCHANGED <<external, containerEnabled, uiAnimating, pc>>

----------------------------------------------------------------------------

Init ==
    /\ gameStarted = FALSE
    /\ currentRow = TotalRows - 1
    /\ game_matrix \in Matrices
    /\ currentCols \in {Cols - 1, Cols}
    /\ gridCells = NewGridCells
    /\ greenLights = NewGreenLights
    /\ containerEnabled = TRUE
    /\ uiAnimating = FALSE
    /\ startSignals = 0
    /\ completeSignals = 0
    /\ statusText = "none"
    /\ buttonHideRequests = 0
    /\ cellRequests = 0
    /\ roundEndRequests = 0
    /\ outcome = "none"
    /\ roundEndOutcome = "none"
    /\ pc = "idle"
    /\ clickRow = -1
    /\ clickCol = -1
    /\ handlerResult = "none"
    /\ lastClick = NoClick
    /\ calls = <<>>
    /\ build = createGrid(ModelledGridOptions)
    /\ gridCall = NoGridCall

Click == \E row \in Rows, col \in ColIdx : handleCellClick(row, col)

Next ==
    \/ Click
    \/ CellClickMine
    \/ CellClickSafe
    \/ CellClickFailed
    \/ MineRoundEndOk
    \/ MineRoundEndFailed
    \/ WinRoundEndOk
    \/ WinRoundEndFailed
    \/ forwardMovementCallback
    \/ HostEnableContainer
    \/ StartGame

Spec == Init /\ [][Next]_vars

\* The same with what the click sequence waits for taken for granted: each
\* remote request completes or fails, and the forward-movement animation
\* fires its completion callback.
LiveSpec ==
    /\ Init
    /\ [][Next]_vars
    /\ WF_vars(CellClickMine \/ CellClickSafe \/ CellClickFailed)
    /\ WF_vars(MineRoundEndOk \/ MineRoundEndFailed)
    /\ WF_vars(WinRoundEndOk \/ WinRoundEndFailed)
    /\ WF_vars(forwardMovementCallback)

----------------------------------------------------------------------------
(* The gridAPI on its own                                                  *)

\* The gridAPI calls tried: every operation, on every address from one
\* below to one above the grid.
GridCalls ==
    {[op |-> op, row |-> row, col |-> col, arg |-> ""] :
        op \in {"getCell", "getGreenLight", "addMineOverlay", "addBombOverlay",
                "playBlastAnimation", "addGreenFlag", "showGreenLight",
                "hideGreenLight", "resetCell"},
        row \in -1 .. TotalRows, col \in -1 .. Cols}
    \cup {[op |-> "setCellPressed", row |-> row, col |-> col, arg |-> arg] :
        row \in -1 .. TotalRows, col \in -1 .. Cols, arg \in {"true", "false"}}
    \cup {[op |-> "triggerCellAnimation", row |-> row, col |-> col, arg |-> "pulse"] :
        row \in -1 .. TotalRows, col \in -1 .. Cols}
    \cup {[op |-> op, row |-> row, col |-> -1, arg |-> arg] :
        op \in {"setRowPressed", "setRowGreenOverlay",
                "setRowAnimatedBackground", "setRowTint"},
        row \in -1 .. TotalRows, arg \in {"true", "false"}}
    \cup {[op |-> op, row |-> row, col |-> -1, arg |-> ""] :
        op \in {"resetRow", "updateRowTinting"}, row \in -1 .. TotalRows}
    \cup {[op |-> "resetGrid", row |-> -1, col |-> -1, arg |-> ""]}
    \cup {[op |-> "pointertap", row |-> row, col |-> col, arg |-> ""] :
        row \in Rows, col \in ColIdx}

\* The cells, the green lights and the return value of a gridAPI call.
CellsAfter(call, g) ==
    CASE call.op = "setCellPressed" ->
            setCellPressed(g, call.row, call.col, call.arg = "true")
      [] call.op = "addMineOverlay" -> addMineOverlay(g, call.row, call.col)
      [] call.op = "addBombOverlay" -> addBombOverlay(g, call.row, call.col)
      [] call.op = "playBlastAnimation" -> playBlastAnimation(g, call.row, call.col)
      [] call.op = "addGreenFlag" -> addGreenFlag(g, call.row, call.col)
      [] call.op = "resetCell" -> resetCell(g, call.row, call.col)
      [] call.op = "triggerCellAnimation" ->
            triggerCellAnimation(g, call.row, call.col, call.arg)
      [] call.op = "setRowPressed" -> setRowPressed(g, call.row, call.arg = "true")
      [] call.op = "setRowAnimatedBackground" ->
            setRowAnimatedBackground(g, call.row, call.arg = "true")
      [] call.op = "setRowTint" -> setRowTint(g, call.row, call.arg = "true")
      [] call.op = "updateRowTinting" -> updateRowTinting(g, call.row)
      [] call.op = "resetRow" -> resetRow(g, call.row)
      [] call.op = "resetGrid" -> resetGrid(g)
      [] OTHER -> g

GreenLightsAfter(call, gl) ==
    CASE call.op = "showGreenLight" -> showGreenLight(gl, call.row, call.col)
      [] call.op = "hideGreenLight" -> hideGreenLight(gl, call.row, call.col)
      [] call.op = "setRowGreenOverlay" ->
            setRowGreenOverlay(gl, call.row, call.arg = "true")
      [] OTHER -> gl

\* The build after a call: a pointertap on the green light at (row, col)
\* runs its handler, nothing else touches the build.
BuildAfter(call, b) ==
    IF call.op = "pointertap"
    THEN [b EXCEPT !.onCellClickCalls =
             @ \o pointertap(b.children[b.greenLights[call.row][call.col]])]
    ELSE b

ResultOf(call) ==
    CASE call.op = "getCell" -> getCell(build, call.row, call.col)
      [] call.op = "getGreenLight" -> getGreenLight(build, call.row, call.col)
      [] OTHER -> Void

\* A grid in use: each row fresh, played (overlays on its cells, animated
\* background, green lights shown) or dimmed (tinted, an animation run),
\* reached from the fresh grid through the gridAPI.
RowLooks == {"fresh", "played", "dimmed"}

UsedCells(look) ==
    [r \in Rows |-> [c \in ColIdx |->
        CASE look[r] = "played" ->
                addGreenFlag(addBombOverlay(addMineOverlay(playBlastAnimation(
                    setRowAnimatedBackground(NewGridCells, r, TRUE),
                    r, c), r, c), r, c), r, c)[r][c]
          [] look[r] = "dimmed" ->
                triggerCellAnimation(setRowTint(NewGridCells, r, TRUE),
                                     r, c, "idle")[r][c]
          [] OTHER -> NewGridCells[r][c]]]

UsedGreenLights(look) ==
    [r \in Rows |-> [c \in ColIdx |->
        IF look[r] = "played"
        THEN setRowGreenOverlay(NewGreenLights, r, TRUE)[r][c]
        ELSE NewGreenLights[r][c]]]

GridInit ==
    /\ \E look \in [Rows -> RowLooks] :
          /\ gridCells = UsedCells(look)
          /\ greenLights = UsedGreenLights(look)
    /\ \E onCellClick \in BOOLEAN :
          build = createGrid([ModelledGridOptions EXCEPT !.onCellClick = onCellClick])
    /\ gridCall = NoGridCall
    /\ gameStarted = FALSE
    /\ currentRow = TotalRows - 1
    /\ game_matrix = <<>>
    /\ currentCols = Cols
    /\ containerEnabled = TRUE
    /\ uiAnimating = FALSE
    /\ startSignals = 0
    /\ completeSignals = 0
    /\ statusText = "none"
    /\ buttonHideRequests = 0
    /\ cellRequests = 0
    /\ roundEndRequests = 0
    /\ outcome = "none"
    /\ roundEndOutcome = "none"
    /\ pc = "idle"
    /\ clickRow = -1
    /\ clickCol = -1
    /\ handlerResult = "none"
    /\ lastClick = NoClick
    /\ calls = <<>>

\* The click sequence and the host stand still.
NoClickSequence ==
    UNCHANGED <<session, game_matrix, currentCols, containerEnabled, signals,
                hostUi, requests, handler, lastClick, calls>>

\* The call `call` on the gridAPI.
ApplyGridCall(call) ==
    /\ gridCells' = CellsAfter(call, gridCells)
    /\ greenLights' = GreenLightsAfter(call, greenLights)
    /\ gridCall' = [op |-> call.op, row |-> call.row, col |-> call.col,
                    arg |-> call.arg, result |-> ResultOf(call),
                    changed |-> gridCall.changed \o
                        <<gridCells' # gridCells \/ greenLights' # greenLights>>]
    /\ build' = BuildAfter(call, build)
    /\ NoClickSequence

\* A first call on the grid, then the same call once more.
GridApiCall ==
    /\ gridCall.changed = <<>>
    /\ \E call \in GridCalls : ApplyGridCall(call)

GridApiRepeat ==
    /\ Len(gridCall.changed) = 1
    /\ ApplyGridCall([op |-> gridCall.op, row |-> gridCall.row,
                      col |-> gridCall.col, arg |-> gridCall.arg])

GridNext == GridApiCall \/ GridApiRepeat

GridSpec == GridInit /\ [][GridNext]_vars

----------------------------------------------------------------------------
(* createGrid on its own                                                   *)

\* The visual state of the cells and the visible flags of the green lights
\* a build left behind, read through its reference arrays.
BuiltCells(b) ==
    [r \in DOMAIN b.gridCells |-> [c \in DOMAIN b.gridCells[r] |-> InitialCell]]

BuiltGreenLights(b) ==
    [r \in DOMAIN b.greenLights |-> [c \in DOMAIN b.greenLights[r] |->
        b.children[b.greenLights[r][c]].visible]]

\* Nothing built yet; the options are any of BuildOptions.
BuildInit ==
    /\ build \in {Unbuilt(o) : o \in BuildOptions}
    /\ gridCells = <<>>
    /\ greenLights = <<>>
    /\ gridCall = NoGridCall
    /\ gameStarted = FALSE
    /\ currentRow = TotalRows - 1
    /\ game_matrix = <<>>
    /\ currentCols = Cols
    /\ containerEnabled = TRUE
    /\ uiAnimating = FALSE
    /\ startSignals = 0
    /\ completeSignals = 0
    /\ statusText = "none"
    /\ buttonHideRequests = 0
    /\ cellRequests = 0
    /\ roundEndRequests = 0
    /\ outcome = "none"
    /\ roundEndOutcome = "none"
    /\ pc = "idle"
    /\ clickRow = -1
    /\ clickCol = -1
    /\ handlerResult = "none"
    /\ lastClick = NoClick
    /\ calls = <<>>

\* The call createGrid(options).
CreateGrid ==
    /\ build.status = "options"
    /\ build' = createGrid(build.options)
    /\ gridCells' = BuiltCells(build')
    /\ greenLights' = BuiltGreenLights(build')
    /\ UNCHANGED gridCall
    /\ NoClickSequence

\* A call of resize on the built grid, with or without a new cell size.
Resize ==
    /\ build.status = "built"
    /\ \E newWidth \in {800, 1000}, newCellSize \in {0, CellSize, CellSize + 20} :
          build' = resize(build, newWidth, 600, newCellSize)
    /\ UNCHANGED <<visuals, gridCall>>
    /\ NoClickSequence

BuildNext == CreateGrid \/ Resize

BuildSpec == BuildInit /\ [][BuildNext]_vars

TypeOK ==
    /\ gameStarted \in BOOLEAN
    /\ currentRow \in Rows
    /\ containerEnabled \in BOOLEAN
    /\ uiAnimating \in BOOLEAN
    /\ pc \in {"idle", "resolving", "mineRoundEnd", "winRoundEnd", "animating"}
    /\ handlerResult \in {"none", "pending", "fulfilled", "rejected"}
    /\ outcome \in {"none", "pending", "mine", "safe", "failed"}
    /\ roundEndOutcome \in {"none", "ok", "failed"}

----------------------------------------------------------------------------
(* Properties                                                              *)

\* A step that is a call of handleCellClick on `row`.
ClickStepOn(row) ==
    /\ lastClick' # lastClick
    /\ lastClick'.row = row

\* C1: a call handleCellClick(row, col) made while gameStarted is false, or
\* with row different from currentRow, leaves the grid visual state, the
\* session, the input gate and the animation signals unchanged and issues no
\* cell-resolution or round-end request, at every such call of a run.
C1_RejectedClickChangesNothing ==
    [][\A row \in Rows :
          (ClickStepOn(row) /\ (~gameStarted \/ row # currentRow))
            => UNCHANGED <<visuals, session, containerEnabled, signals,
                           requests, hostUi, handler>>]_vars

\* A click on a row other than the current row of a started game was rejected
\* after an earlier click of the round had been accepted and had progressed.
C1_Witness ==
    /\ gameStarted
    /\ lastClick # NoClick
    /\ ~lastClick.accepted
    /\ lastClick.row # currentRow
    /\ currentRow < TotalRows - 1
    /\ pc = "idle"

\* The step in which the promise of handleCellClick settles.
HandlerCompletes == handlerResult = "pending" /\ handlerResult' # "pending"

\* C2: on a mine-hit outcome at (row, col) the blast and the mine overlay are
\* applied at exactly (row, col), and when handleCellClick completes the
\* session is gameStarted = FALSE and currentRow = totalRows - 1, whether the
\* round-end request succeeded or failed.
C2_MineHitOverlayAndReset ==
    [][/\ (pc = "resolving" /\ outcome' = "mine")
          => \A r \in Rows, c \in ColIdx :
                gridCells'[r][c] =
                  IF r = clickRow /\ c = clickCol
                  THEN [gridCells[r][c] EXCEPT !.blast = TRUE, !.mine = TRUE]
                  ELSE gridCells[r][c]
       /\ (HandlerCompletes /\ outcome' = "mine")
          => /\ roundEndOutcome' \in {"ok", "failed"}
             /\ gameStarted' = FALSE
             /\ currentRow' = TotalRows - 1]_vars

\* A mine hit below the starting row completed after its round-end request
\* had failed.
C2_Witness ==
    /\ outcome = "mine"
    /\ roundEndOutcome = "failed"
    /\ handlerResult = "fulfilled"
    /\ clickRow < TotalRows - 1
    /\ gridCells[clickRow][clickCol].blast
    /\ gridCells[clickRow][clickCol].mine
    /\ ~gameStarted
    /\ currentRow = TotalRows - 1

\* The visual row of a matrix row: visualRow = totalRows - (matrixRowIndex + 1).
VisualRow(matrixRowIndex) == TotalRows - (matrixRowIndex + 1)

\* The grid positions of the matrix cells classified MINE within currentCols
\* columns.
MinePositions ==
    {<<VisualRow(i), c>> :
        <<i, c>> \in {<<j, d>> \in (DOMAIN game_matrix) \X ColIdx :
                        /\ d \in ScannedCols(game_matrix[j])
                        /\ game_matrix[j][d] = "MINE"}}

\* C3: after a mine-hit outcome at visual row `row`, every matrix cell
\* classified MINE, within currentCols columns, whose visual row is at or
\* above `row` carries a bomb overlay at its visual position.
C3_MinesAtOrAboveRevealed ==
    (outcome = "mine" /\ handlerResult = "fulfilled")
      => \A p \in MinePositions :
            p[1] >= clickRow => gridCells[p[1]][p[2]].bomb

\* The same statement for the mine hits whose round-end request succeeded.
C3_RevealedWhenRoundEndOk ==
    (outcome = "mine" /\ handlerResult = "fulfilled" /\ roundEndOutcome = "ok")
      => \A p \in MinePositions : gridCells[p[1]][p[2]].bomb

\* C4: on a mine-hit outcome the settlement of the round-end request, success
\* or failure, is followed by the same corrections: a bomb overlay on every
\* remaining MINE cell, the tint recompute with the pre-reset current row,
\* the session reset and the animations-complete signal.
C4_RoundEndFailureBlocksNothing ==
    [][(pc = "mineRoundEnd" /\ pc' = "idle")
         => /\ \A r \in Rows, c \in ColIdx :
                 /\ (<<r, c>> \in RemainingMines(game_matrix, clickRow))
                       => gridCells'[r][c].bomb
                 /\ gridCells'[r][c].tint = (r > currentRow)
            /\ gameStarted' = FALSE
            /\ currentRow' = TotalRows - 1
            /\ uiAnimating' = FALSE
            /\ completeSignals' = completeSignals + 1]_vars

\* The corrections of C4 other than the bomb overlays.
C4_AllButTheReveal ==
    [][(pc = "mineRoundEnd" /\ pc' = "idle")
         => /\ \A r \in Rows, c \in ColIdx :
                 gridCells'[r][c].tint = (r > currentRow)
            /\ gameStarted' = FALSE
            /\ currentRow' = TotalRows - 1
            /\ uiAnimating' = FALSE
            /\ completeSignals' = completeSignals + 1]_vars

\* C5: on a safe outcome at row > 0 the session's currentRow is row - 1 before
\* the forward-movement callback fires and the green lights of row - 1 are
\* not shown before it fires; the callback shows them, switches row - 1 to the
\* animated background, recomputes the tints with reference row - 1 and only
\* then signals animations complete.
C5_ProgressOrder ==
    [][/\ (pc = "resolving" /\ outcome' = "safe" /\ clickRow > 0)
          => /\ pc' = "animating"
             /\ currentRow' = clickRow - 1
             /\ greenLights'[clickRow - 1] = greenLights[clickRow - 1]
             /\ UNCHANGED signals
       /\ (pc = "animating")
          => /\ currentRow = clickRow - 1
             /\ \A c \in ColIdx : ~greenLights[clickRow - 1][c]
             /\ completeSignals = 0
             /\ uiAnimating
       /\ (pc = "animating" /\ pc' # "animating")
          => /\ \A c \in ColIdx :
                  /\ greenLights'[clickRow - 1][c]
                  /\ gridCells'[clickRow - 1][c].animatedBg
             /\ \A r \in Rows, c \in ColIdx :
                  gridCells'[r][c].tint = (r > clickRow - 1)
             /\ completeSignals' = 1
             /\ uiAnimating' = FALSE
             /\ currentRow' = clickRow - 1]_vars

\* The forward-movement callback has fired for a progression to row 0.
C5_Witness ==
    /\ outcome = "safe"
    /\ clickRow = 1
    /\ pc = "idle"
    /\ currentRow = 0
    /\ completeSignals = 1
    /\ \A c \in ColIdx : greenLights[0][c] /\ gridCells[0][c].animatedBg
    /\ \A c \in ColIdx : gridCells[1][c].tint /\ ~gridCells[0][c].tint

\* C6: when handleCellClick completes after a safe outcome on row 0,
\* currentRow = totalRows - 1, gameStarted = FALSE and no row is tinted.
C6_WinClearsTints ==
    (outcome = "safe" /\ clickRow = 0 /\ handlerResult = "fulfilled" /\ pc = "idle")
      => /\ currentRow = TotalRows - 1
         /\ gameStarted = FALSE
         /\ \A r \in Rows, c \in ColIdx : ~gridCells[r][c].tint

\* The session part of C6.
C6_WinResetsSession ==
    (outcome = "safe" /\ clickRow = 0 /\ handlerResult = "fulfilled" /\ pc = "idle")
      => /\ currentRow = TotalRows - 1
         /\ gameStarted = FALSE

\* The overlays of a cell: mine, bomb, blast and green flag.
Overlays(cell) == <<cell.mine, cell.bomb, cell.blast, cell.flag>>

\* Column c of the matrix row of visual row `row` is scanned and holds value.
MatrixHolds(row, c, value) ==
    LET matrixRowIndex == TotalRows - (row + 1)
    IN  /\ matrixRowIndex \in DOMAIN game_matrix
        /\ c \in DOMAIN game_matrix[matrixRowIndex]
        /\ c < currentCols
        /\ game_matrix[matrixRowIndex][c] = value

\* C7: on a safe outcome at (row, col) the green flag is added at (row, col);
\* for every column c < currentCols of matrix row totalRows - (row + 1) a MINE
\* adds a bomb overlay at (row, c), a HIDDEN hides the green light at (row, c)
\* and any other value leaves that column's green light and visual unchanged;
\* the reveal changes no bomb overlay and no green light in any other row.
\* With totalRows = 3 and the matrix [[MINE,HIDDEN],[SAFE,SAFE],[SAFE,MINE]],
\* a safe click on row 0 puts a bomb overlay at (0, 1) and leaves column 0.
C7_SafeRevealInClickedRowOnly ==
    [][(pc = "resolving" /\ outcome' = "safe")
         => /\ \A r \in Rows, c \in ColIdx :
                 /\ gridCells'[r][c].flag =
                      (gridCells[r][c].flag \/ (r = clickRow /\ c = clickCol))
                 /\ gridCells'[r][c].bomb =
                      (gridCells[r][c].bomb
                         \/ (r = clickRow /\ MatrixHolds(r, c, "MINE")))
                 /\ greenLights'[r][c] =
                      (greenLights[r][c]
                         /\ ~(r = clickRow /\ MatrixHolds(r, c, "HIDDEN")))
                 /\ gridCells'[r][c].mine = gridCells[r][c].mine
                 /\ gridCells'[r][c].blast = gridCells[r][c].blast
                 /\ gridCells'[r][c].pressedOffset = gridCells[r][c].pressedOffset
                 /\ gridCells'[r][c].animatedBg = gridCells[r][c].animatedBg
            /\ (game_matrix = ExampleMatrix /\ clickRow = 0 /\ currentCols = 2)
                 => /\ gridCells'[0][1].bomb
                    /\ gridCells'[0][0].bomb = gridCells[0][0].bomb
                    /\ greenLights'[0][0] = greenLights[0][0]]_vars

\* The example of C7: the safe click on row 0 under the example matrix.
C7_Witness ==
    /\ game_matrix = ExampleMatrix
    /\ currentCols = 2
    /\ outcome = "safe"
    /\ clickRow = 0
    /\ gridCells[0][clickCol].flag
    /\ gridCells[0][1].bomb
    /\ ~gridCells[0][0].bomb
    /\ gridCells[2][0].bomb
    /\ ~greenLights[2][1]

\* C8: when the cell-resolution request of a valid click on `row` fails, the
\* pressed state of `row` is unset, animations-complete is signalled, no
\* overlay is added, no round-end request is issued and the session is
\* unchanged (gameStarted still true, currentRow still `row`), so that a later
\* click on the same row passes validation again.
C8_ResolutionFailureRecovers ==
    [][(pc = "resolving" /\ outcome' = "failed")
         => /\ \A c \in ColIdx : gridCells'[clickRow][c].pressedOffset = 0
            /\ completeSignals' = completeSignals + 1
            /\ uiAnimating' = FALSE
            /\ \A r \in Rows, c \in ColIdx :
                 Overlays(gridCells'[r][c]) = Overlays(gridCells[r][c])
            /\ roundEndRequests' = 0
            /\ UNCHANGED session
            /\ gameStarted'
            /\ currentRow' = clickRow
            /\ pc' = "idle"
            /\ handlerResult' = "fulfilled"]_vars

\* A resolution failure was recovered from and the host has re-opened the
\* input gate on the same current row.
C8_Witness ==
    /\ outcome = "failed"
    /\ pc = "idle"
    /\ gameStarted
    /\ currentRow = clickRow
    /\ completeSignals = 1
    /\ ~uiAnimating
    /\ containerEnabled
    /\ roundEndRequests = 0

\* C9: no failure escapes a click handling cycle: whatever the cell-resolution
\* request and the round-end request do, on the mine-hit and on the win path,
\* the promise of handleCellClick is fulfilled and never rejected.
C9_NoFailureEscapes ==
    /\ handlerResult # "rejected"
    /\ (pc \in {"idle", "animating"} /\ outcome # "none")
         => handlerResult = "fulfilled"

\* The win path completed after its round-end request had failed.
C9_Witness ==
    /\ outcome = "safe"
    /\ clickRow = 0
    /\ roundEndOutcome = "failed"
    /\ pc = "idle"
    /\ handlerResult = "fulfilled"

\* C10: at most one click sequence is in progress at any time: from the valid
\* click that closes the input gate until its animations-complete signal the
\* gate stays closed and no further call of handleCellClick gets through, in
\* particular not between the currentRow update and the forward-movement
\* callback.
C10_OneClickSequenceAtATime ==
    /\ [](pc # "idle" => (~containerEnabled /\ uiAnimating /\ completeSignals = 0))
    /\ [][pc # "idle" => UNCHANGED lastClick]_vars

\* The session already names the new current row while the forward-movement
\* callback is still outstanding and the gate is closed.
C10_Witness ==
    /\ pc = "animating"
    /\ gameStarted
    /\ currentRow = clickRow - 1
    /\ ~containerEnabled
    /\ uiAnimating

\* C11: in every reachable state an Indicator is visible only if its row is
\* the session's current row: no green light of a row other than currentRow
\* is visible.
C11_VisibleOnlyOnCurrentRow ==
    \A r \in Rows, c \in ColIdx : greenLights[r][c] => r = currentRow

\* Row counts the offset table has an entry for.
SupportedRows == {3, 6, 9, 12, 15}

\* Children of the built container of a kind at (row, col).
ChildrenAt(kind, row, col) ==
    {i \in DOMAIN build.children :
        /\ build.children[i].kind = kind
        /\ build.children[i].row = row
        /\ build.children[i].col = col}

ChildrenOfKind(kind) ==
    {i \in DOMAIN build.children : build.children[i].kind = kind}

\* C12: for every supported row count and every column count createGrid
\* builds the grid, with exactly one Cell and exactly one Indicator per
\* (row, col), 0 <= row < rows, 0 <= col < cols, rows * cols of each and none
\* elsewhere, the reference arrays naming them, and every Indicator hidden
\* right after the build.
C12_OneCellOneHiddenIndicatorEach ==
    (build.status # "options" /\ build.options.rows \in SupportedRows)
      => LET o == build.options
         IN  /\ build.status = "built"
             /\ Cardinality(ChildrenOfKind("cell")) = o.rows * o.cols
             /\ Cardinality(ChildrenOfKind("greenLight")) = o.rows * o.cols
             /\ DOMAIN build.gridCells = 0 .. (o.rows - 1)
             /\ DOMAIN build.greenLights = 0 .. (o.rows - 1)
             /\ \A r \in 0 .. (o.rows - 1) :
                   /\ DOMAIN build.gridCells[r] = 0 .. (o.cols - 1)
                   /\ DOMAIN build.greenLights[r] = 0 .. (o.cols - 1)
                   /\ \A c \in 0 .. (o.cols - 1) :
                         /\ ChildrenAt("cell", r, c) = {build.gridCells[r][c]}
                         /\ ChildrenAt("greenLight", r, c) = {build.greenLights[r][c]}
                         /\ ~build.children[build.greenLights[r][c]].visible
                         /\ ~greenLights[r][c]

\* A grid of the largest supported row count was built, with text cards
\* among its children.
C12_Witness ==
    /\ build.status = "built"
    /\ build.options.rows = 15
    /\ build.options.cols = MaxBuildCols
    /\ ChildrenOfKind("textCard") # {}
    /\ Cardinality(ChildrenOfKind("greenLight")) = 15 * MaxBuildCols

\* A step that makes the gridAPI call of gridCall' a second time in a row.
RepeatedCall(ops) ==
    /\ Len(gridCall.changed) = 1
    /\ Len(gridCall'.changed) = 2
    /\ gridCall'.op \in ops

OutOfBounds(call) ==
    \/ call.row < 0
    \/ call.row >= TotalRows
    \/ /\ call.op \notin {"setRowPressed", "setRowGreenOverlay",
                          "setRowAnimatedBackground", "setRowTint", "resetRow"}
       /\ (call.col < 0 \/ call.col >= Cols)

\* The operations addressed by (row, col) or by row; updateRowTinting takes a
\* reference row and resetGrid no address.
AddressedOps ==
    {"getCell", "getGreenLight", "setCellPressed", "addMineOverlay",
     "addBombOverlay", "playBlastAnimation", "addGreenFlag", "showGreenLight",
     "hideGreenLight", "resetCell", "triggerCellAnimation", "setRowPressed",
     "setRowGreenOverlay", "setRowAnimatedBackground", "setRowTint", "resetRow"}

\* C14: every gridAPI operation addressed by (row, col) or by row is a no-op
\* when the address is out of bounds (row < 0, row >= rows, col < 0 or
\* col >= cols): no cell's visual state and no green light's visibility
\* changes, and getCell / getGreenLight return null.
C14_OutOfBoundsNoOp ==
    [][(gridCall' # gridCall /\ gridCall'.op \in AddressedOps
          /\ OutOfBounds(gridCall'))
         => /\ UNCHANGED visuals
            /\ gridCall'.op \in {"getCell", "getGreenLight"}
                 => gridCall'.result = Null]_vars

\* A row-wide call one row above a grid in use left it as it was.
C14_Witness ==
    /\ gridCall.op = "setRowTint"
    /\ gridCall.arg = "true"
    /\ gridCall.row = TotalRows
    /\ gridCall.changed = <<FALSE>>
    /\ \E r \in Rows : \A c \in ColIdx : ~gridCells[r][c].tint /\ greenLights[r][c]

CalledBefore(i, op, row, col, arg) ==
    \E j \in 1 .. (i - 1) : calls[j] = Call(op, row, col, arg)

\* C16: for every valid click on `row`, the four lock-and-prime effects come
\* before the cell-resolution request: the input gate is disabled,
\* animations-starting is signalled, the cells of `row` are set pressed and
\* the background of `row` is switched to static; they are in force while
\* the request is outstanding.
C16_LockAndPrimeBeforeRequest ==
    /\ \A i \in DOMAIN calls :
          calls[i].op = "cellClickEvents"
            => /\ CalledBefore(i, "disableContainer", -1, -1, "")
               /\ CalledBefore(i, "markAnimationsStarting", -1, -1, "")
               /\ CalledBefore(i, "setRowPressed", calls[i].row, -1, "true")
               /\ CalledBefore(i, "setRowAnimatedBackground", calls[i].row, -1, "false")
    /\ pc = "resolving"
         => /\ \E i \in DOMAIN calls : calls[i].op = "cellClickEvents"
            /\ ~containerEnabled
            /\ uiAnimating
            /\ startSignals = 1
            /\ \A c \in ColIdx :
                  /\ gridCells[clickRow][c].pressedOffset = CellSize * 0
                  /\ ~gridCells[clickRow][c].animatedBg

\* The cell-resolution request of a click on a row above the bottom row is
\* outstanding.
C16_Witness ==
    /\ pc = "resolving"
    /\ clickRow < TotalRows - 1
    /\ Call("cellClickEvents", clickRow, clickCol, "") = calls[Len(calls)]

\* The entries of a call log whose operation is one of ops.
CallsOf(log, ops) == {i \in DOMAIN log : log[i].op \in ops}

BranchOps == {"handleMineHit", "handleSafeCell", "handleCellClickError"}

\* The branch each outcome of the cell-resolution request starts.
BranchFor(result) ==
    CASE result = "mine"   -> Call("handleMineHit", clickRow, clickCol, "")
      [] result = "safe"   -> Call("handleSafeCell", clickRow, clickCol, "")
      [] result = "failed" -> Call("handleCellClickError", clickRow, -1, "")

\* C17: each click that passes validation issues exactly one cell-resolution
\* request, carrying the clicked (row, col), and the outcome of that request
\* starts exactly one of the three branches (mine-hit sequence, safe-cell
\* sequence, error recovery); a rejected click issues no request.
C17_OneRequestOneBranch ==
    /\ [](Cardinality(CallsOf(calls, {"cellClickEvents"})) = cellRequests)
    /\ [][(pc = "idle" /\ pc' = "resolving")
            => /\ Cardinality(CallsOf(calls', {"cellClickEvents"})) = 1
               /\ \A i \in CallsOf(calls', {"cellClickEvents"}) :
                     calls'[i] = Call("cellClickEvents", lastClick'.row, clickCol', "")
               /\ clickRow' = lastClick'.row
               /\ lastClick'.accepted
               /\ CallsOf(calls', BranchOps) = {}]_vars
    /\ [][(pc = "resolving" /\ pc' # "resolving")
            => /\ outcome' \in {"mine", "safe", "failed"}
               /\ CallsOf(calls', BranchOps) = {Len(calls) + 1}
               /\ calls'[Len(calls) + 1] = BranchFor(outcome')
               /\ UNCHANGED cellRequests]_vars
    /\ [][\A row \in Rows :
            (ClickStepOn(row) /\ ~lastClick'.accepted)
              => UNCHANGED <<calls, cellRequests, outcome, pc>>]_vars
    /\ [][pc = "resolving" => UNCHANGED <<cellRequests, clickRow, clickCol>>]_vars

\* A click on the last column of a row above the bottom row was resolved as
\* a mine hit, by its one request.
C17_Witness ==
    /\ outcome = "mine"
    /\ pc = "mineRoundEnd"
    /\ clickRow < TotalRows - 1
    /\ clickCol = Cols - 1
    /\ cellRequests = 1
    /\ CallsOf(calls, BranchOps) = {Len(calls) - 1}

\* The error recovery ran in the current click sequence: handleCellClickError
\* was entered or the pressed state of the clicked row was unset.
RecoveryRan ==
    \/ CallsOf(calls, {"handleCellClickError"}) # {}
    \/ \E i \in DOMAIN calls : calls[i] = Call("setRowPressed", clickRow, -1, "false")

\* C18: the error recovery (clearing the pressed state of the clicked row)
\* happens only when the cell-resolution request itself failed: on every
\* mine-hit and every safe outcome, also when the round-end request fails,
\* the click handling does not unset the pressed state of the clicked row.
C18_RecoveryOnlyOnResolutionFailure ==
    RecoveryRan => outcome = "failed"

\* Outside a failed cell resolution the recovery runs on the win path with a
\* failed round-end request, and nowhere else.
C18_RecoveryOnFailedWinRoundEnd ==
    (RecoveryRan /\ outcome # "failed")
      <=> (outcome = "safe" /\ clickRow = 0 /\ roundEndOutcome = "failed")

\* The step in which completeGame resumes from its round-end request.
WinRoundEndSettles == pc = "winRoundEnd" /\ pc' = "idle"

\* C19: on the win path a failure of the round-end request does not alter
\* the outcome: whether the request succeeds or fails, completeGame ends with
\* the win status text, one animations-complete signal, one temporary
\* button-hide request and the grid visual state it had before the request.
C19_WinOutcomeWhateverRoundEnd ==
    [][WinRoundEndSettles
         => /\ roundEndOutcome' \in {"ok", "failed"}
            /\ statusText' = "youWinCollect"
            /\ completeSignals' = 1
            /\ buttonHideRequests' = 1
            /\ UNCHANGED visuals]_vars

\* What a failed round-end request leaves of it: the single
\* animations-complete signal and the grid visual state.
C19_SignalAndGridKept ==
    [][WinRoundEndSettles
         => /\ completeSignals' = 1
            /\ ~uiAnimating'
            /\ UNCHANGED visuals]_vars

\* With a failed round-end request the win text and the button-hide request
\* are missing.
C19_FailedRoundEndDropsTextAndButtons ==
    [][(WinRoundEndSettles /\ roundEndOutcome' = "failed")
         => /\ statusText' = "youCanWin"
            /\ buttonHideRequests' = 0]_vars

\* The round-end requests of the current click sequence.
RoundEnds == CallsOf(calls, {"roundEndEvents"})

\* C20: exactly one round-end request, with reason "mine_hit", is issued per
\* concluded round: one on every mine-hit outcome and one on every safe
\* outcome at row 0; none on a safe outcome at row > 0, on a failed cell
\* resolution or on a rejected click.
C20_OneRoundEndPerConcludedRound ==
    /\ [](/\ Cardinality(RoundEnds) = roundEndRequests
          /\ \A i \in RoundEnds : calls[i] = Call("roundEndEvents", -1, -1, "mine_hit")
          /\ outcome = "mine" => Cardinality(RoundEnds) = 1
          /\ (outcome = "safe" /\ clickRow = 0) => Cardinality(RoundEnds) = 1
          /\ (outcome = "safe" /\ clickRow > 0) => RoundEnds = {}
          /\ outcome \in {"none", "pending", "failed"} => RoundEnds = {})
    /\ [][\A row \in Rows :
            (ClickStepOn(row) /\ ~lastClick'.accepted)
              => UNCHANGED <<calls, roundEndRequests>>]_vars

\* The win path issued its round-end request.
C20_Witness ==
    /\ outcome = "safe"
    /\ clickRow = 0
    /\ pc = "winRoundEnd"
    /\ roundEndRequests = 1
    /\ calls[Len(calls)] = Call("roundEndEvents", -1, -1, "mine_hit")

\* The position in the call log of the only call with operation op, 0 when
\* there is none or more than one.
IndexOf(op) ==
    IF Cardinality(CallsOf(calls, {op})) = 1
    THEN CHOOSE i \in DOMAIN calls : calls[i].op = op
    ELSE 0

\* C21: in the mine-hit sequence the effects come in the order overlays at
\* the clicked cell, tint recompute, session reset, animations-complete; the
\* tint recompute reads the current row before the reset, so after a mine hit
\* at row r every row > r is tinted and every row <= r is untinted although
\* currentRow is then totalRows - 1.
C21_MineHitOrderAndTint ==
    /\ [](pc = "mineRoundEnd"
            => /\ gridCells[clickRow][clickCol].mine
               /\ gridCells[clickRow][clickCol].blast
               /\ gameStarted
               /\ currentRow = clickRow
               /\ completeSignals = 0
               /\ CallsOf(calls, {"updateRowTinting", "setGameStarted",
                                  "setCurrentRow", "markAnimationsComplete"}) = {})
    /\ []((outcome = "mine" /\ pc = "idle")
            => /\ IndexOf("handleMineHit") > 0
               /\ IndexOf("handleMineHit") < IndexOf("updateRowTinting")
               /\ IndexOf("updateRowTinting") < IndexOf("setGameStarted")
               /\ IndexOf("setGameStarted") < IndexOf("setCurrentRow")
               /\ IndexOf("setCurrentRow") < IndexOf("markAnimationsComplete")
               /\ calls[IndexOf("updateRowTinting")].row = clickRow)
    /\ [][(HandlerCompletes /\ outcome' = "mine")
            => /\ \A r \in Rows, c \in ColIdx : gridCells'[r][c].tint <=> r > clickRow
               /\ currentRow' = TotalRows - 1
               /\ ~gameStarted'
               /\ completeSignals' = 1]_vars

\* A mine hit two rows below the starting row completed: the rows above it
\* are tinted while the session is back on the bottom row.
C21_Witness ==
    /\ outcome = "mine"
    /\ pc = "idle"
    /\ clickRow = 0
    /\ currentRow = TotalRows - 1
    /\ gridCells[TotalRows - 1][0].tint
    /\ ~gridCells[0][0].tint

\* C22: for every reference row ref, 0 <= ref <= rows - 1, and every tint
\* state before the call, after updateRowTinting(ref) a row r of 0 .. rows-1
\* is tinted if and only if r > ref; nothing else of a cell changes.
C22_TintedIffAboveReference ==
    [][(gridCall' # gridCall /\ gridCall'.op = "updateRowTinting"
          /\ gridCall'.row \in Rows)
         => \A r \in Rows, c \in ColIdx :
               gridCells'[r][c] =
                 [gridCells[r][c] EXCEPT !.tint = (r > gridCall'.row)]]_vars

\* updateRowTinting(1) changed a grid: the row above is tinted, the
\* reference row and the row below are not.
C22_Witness ==
    /\ gridCall.op = "updateRowTinting"
    /\ gridCall.row = 1
    /\ gridCall.changed = <<TRUE>>
    /\ \A c \in ColIdx :
          /\ gridCells[2][c].tint
          /\ ~gridCells[1][c].tint
          /\ ~gridCells[0][c].tint

\* C23: every click that passes validation leads to exactly one
\* animations-complete signal, given that each remote request completes or
\* fails and the forward-movement callback fires: its one
\* markAnimationsStarting is matched by one markAnimationsComplete, never by
\* more, on the mine-hit, progress, win and error-recovery paths.
C23_OneCompleteSignalPerClick ==
    /\ [](completeSignals <= 1 /\ startSignals <= 1)
    /\ [](pc # "idle" => (startSignals = 1 /\ completeSignals = 0))
    /\ []((pc = "idle" /\ outcome # "none")
            => (startSignals = 1 /\ completeSignals = 1 /\ ~uiAnimating
                  /\ Cardinality(CallsOf(calls, {"markAnimationsStarting"})) = 1
                  /\ Cardinality(CallsOf(calls, {"markAnimationsComplete"})) = 1))
    /\ ((startSignals = 1 /\ completeSignals = 0)
          ~> (completeSignals = 1 /\ pc = "idle"))

\* A safe click above row 0 ran to its completion signal through the
\* forward-movement callback.
C23_Witness ==
    /\ outcome = "safe"
    /\ clickRow > 0
    /\ pc = "idle"
    /\ startSignals = 1
    /\ completeSignals = 1
    /\ calls[Len(calls)] = Call("markAnimationsComplete", -1, -1, "")

\* C24: in every reachable state 0 <= currentRow <= totalRows - 1, and the
\* click sequence changes currentRow in two ways only: down by exactly 1 on a
\* safe outcome at a row > 0, and back to totalRows - 1 on a mine hit or on a
\* safe outcome at row 0.
C24_CurrentRowRangeAndChanges ==
    /\ [](currentRow >= 0 /\ currentRow <= TotalRows - 1)
    /\ [][currentRow' # currentRow
            => \/ /\ pc = "resolving"
                  /\ outcome' = "safe"
                  /\ clickRow > 0
                  /\ currentRow = clickRow
                  /\ currentRow' = currentRow - 1
               \/ /\ pc = "resolving"
                  /\ outcome' = "safe"
                  /\ clickRow = 0
                  /\ currentRow' = TotalRows - 1
               \/ /\ pc = "mineRoundEnd"
                  /\ outcome = "mine"
                  /\ currentRow' = TotalRows - 1]_vars
    /\ [][(pc = "resolving" /\ outcome' = "safe")
            => currentRow' = IF clickRow > 0 THEN clickRow - 1 ELSE TotalRows - 1]_vars
    /\ [][(pc = "mineRoundEnd" /\ pc' = "idle") => currentRow' = TotalRows - 1]_vars

\* The session counted down to row 0 by safe outcomes and waits for a click.
C24_Witness ==
    /\ gameStarted
    /\ currentRow = 0
    /\ pc = "idle"
    /\ outcome = "safe"
    /\ clickRow = 1

\* C25: after a round has ended (mine hit, or safe outcome at row 0) every
\* click on any cell is rejected, with no visual or session change and no
\* remote request, until gameStarted is set back to true from outside; no
\* step of the click sequence sets gameStarted to true.
C25_RejectedAfterRoundEnd ==
    /\ [](pc = "resolving" => gameStarted)
    /\ [][\A row \in Rows :
            (ClickStepOn(row) /\ ~gameStarted)
              => /\ ~lastClick'.accepted
                 /\ UNCHANGED <<visuals, session, containerEnabled, signals,
                                requests, hostUi, handler, calls>>]_vars
    /\ [][(~gameStarted /\ gameStarted') => StartGame]_vars
    /\ [][(pc # "idle" \/ pc' # "idle") => (gameStarted' => gameStarted)]_vars

\* After a mine hit ended the round, a click on the bottom row, which is the
\* current row again, was rejected.
C25_Witness ==
    /\ ~gameStarted
    /\ outcome = "mine"
    /\ pc = "idle"
    /\ containerEnabled
    /\ lastClick = [row |-> currentRow, accepted |-> FALSE]
    /\ cellRequests = 1

\* A step that makes the call `op` on the grid at an address inside it.
CallInside(ops) ==
    /\ gridCall' # gridCall
    /\ gridCall'.op \in ops
    /\ gridCall'.row \in Rows
    /\ gridCall'.col \in ColIdx

\* C26: a tap on the Indicator bound to (row, col) invokes the click callback
\* exactly once, with exactly (row, col), when a callback was supplied at
\* construction, and invokes nothing when none was supplied; showing or
\* hiding an Indicator changes the visible flag of that Indicator only and
\* no cell's visual state.
C26_TapAndShowHide ==
    /\ [][CallInside({"pointertap"})
            => /\ build'.onCellClickCalls =
                    build.onCellClickCalls \o
                      (IF build.options.onCellClick
                       THEN <<(<<gridCall'.row, gridCall'.col>>)>> ELSE <<>>)
               /\ UNCHANGED visuals]_vars
    /\ [][CallInside({"showGreenLight", "hideGreenLight"})
            => /\ UNCHANGED <<gridCells, build>>
               /\ \A r \in Rows, c \in ColIdx :
                     greenLights'[r][c] =
                       IF r = gridCall'.row /\ c = gridCall'.col
                       THEN gridCall'.op = "showGreenLight"
                       ELSE greenLights[r][c]]_vars
    /\ [][build'.onCellClickCalls # build.onCellClickCalls
            => gridCall'.op = "pointertap"]_vars

\* Two taps on the green light of the last column of row 1 reached the
\* callback, once each.
C26_Witness ==
    /\ gridCall.op = "pointertap"
    /\ gridCall.row = 1
    /\ gridCall.col = Cols - 1
    /\ Len(gridCall.changed) = 2
    /\ build.onCellClickCalls = <<(<<1, Cols - 1>>), (<<1, Cols - 1>>)>>

\* A tap on a green light built without a callback invoked nothing.
C26_NoCallbackNoCall ==
    /\ gridCall.op = "pointertap"
    /\ ~build.options.onCellClick
    /\ build.onCellClickCalls = <<>>

\* The cell and the green light of (row, col) among the children.
CellOf(b, row, col) == b.children[b.gridCells[row][col]]
GreenLightOf(b, row, col) == b.children[b.greenLights[row][col]]

\* C27: the position of each Indicator equals the position of its Cell: for
\* every (row, col), right after createGrid and after every resize, the x
\* and y of the green light are those of the cell.
C27_IndicatorAtCellPosition ==
    build.status = "built"
      => \A r \in DOMAIN build.gridCells : \A c \in DOMAIN build.gridCells[r] :
            /\ GreenLightOf(build, r, c).x = CellOf(build, r, c).x
            /\ GreenLightOf(build, r, c).y = CellOf(build, r, c).y

\* After a resize with a new cell size the green lights are at their cells.
C27_AtCellAfterResize ==
    [][(build.status = "built" /\ build'.lastResize.called
          /\ build'.lastResize.newCellSize # 0 /\ build' # build)
         => \A r \in DOMAIN build'.gridCells : \A c \in DOMAIN build'.gridCells[r] :
               /\ GreenLightOf(build', r, c).x = CellOf(build', r, c).x
               /\ GreenLightOf(build', r, c).y = CellOf(build', r, c).y]_vars

\* Right after createGrid every green light is a quarter of the cell size to
\* the right of its cell and 0.15 of it below.
C27_OffsetAfterCreateGrid ==
    [][(build.status = "options" /\ build'.status = "built")
         => \A r \in DOMAIN build'.gridCells : \A c \in DOMAIN build'.gridCells[r] :
               /\ GreenLightOf(build', r, c).x =
                    CellOf(build', r, c).x + (build'.options.cellSize * 250)
               /\ GreenLightOf(build', r, c).y =
                    CellOf(build', r, c).y + (build'.options.cellSize * 150)]_vars

\* The build createGrid makes for the width, height and cell size of the
\* latest resize, with zero base offsets.
RebuiltAs(b) ==
    createGrid([b.options EXCEPT !.width = b.lastResize.newWidth,
                                 !.height = b.lastResize.newHeight,
                                 !.cellSize = b.lastResize.newCellSize,
                                 !.offsetX = 0, !.offsetY = 0])

\* A step that calls resize on the built grid.
ResizeStep == build.status = "built" /\ build'.status = "built" /\ build' # build

\* C28: resize(newWidth, newHeight, newCellSize) recomputes every cell's
\* position with the stagger formula of the build: for every (row, col) the
\* position after resize is the one createGrid computes for the same width,
\* height and cell size with zero base offsets; resize without a new cell
\* size changes no position and no size.
C28_ResizeUsesBuildFormula ==
    [][ResizeStep
         => IF build'.lastResize.newCellSize # 0
            THEN \A r \in DOMAIN build'.gridCells : \A c \in DOMAIN build'.gridCells[r] :
                    /\ CellOf(build', r, c).x = CellOf(RebuiltAs(build'), r, c).x
                    /\ CellOf(build', r, c).y = CellOf(RebuiltAs(build'), r, c).y
            ELSE build'.children = build.children]_vars

\* resize without a new cell size leaves every child as it was.
C28_NoSizeNoChange ==
    [][(ResizeStep /\ build'.lastResize.newCellSize = 0)
         => build'.children = build.children]_vars

\* The anchor is the build's: after a resize with a new cell size the cell
\* (0, 0) is where createGrid puts it.
C28_AnchorAsBuilt ==
    [][(ResizeStep /\ build'.lastResize.newCellSize # 0)
         => /\ CellOf(build', 0, 0).x = CellOf(RebuiltAs(build'), 0, 0).x
            /\ CellOf(build', 0, 0).y = CellOf(RebuiltAs(build'), 0, 0).y]_vars

====
